---- MODULE Spec2Model ----
(***************************************************************************)
(* Model of the work-item broker ItemDistributor (src/ItemDistributor.hpp). *)
(*                                                                         *)
(* The broker is a single-threaded event loop.  Every action below is one  *)
(* handler of that loop, taken as a whole: on_generator_pollin,            *)
(* on_worker_pollin (one action per branch of the handler) and the         *)
(* heartbeat sweep that follows every return of poller.wait.               *)
(*                                                                         *)
(* Items are shared_ptr<Item> objects.  An Item is destroyed when the last *)
(* reference to it goes away, and its destructor appends the id to         *)
(* completed_items_.  Item ids are unique within a session, so an item     *)
(* object is named by its id and its reference count is the number of      *)
(* queue entries (plus the handler's local variable) that hold the id.     *)
(***************************************************************************)
EXTENDS Integers, Sequences, FiniteSets, TLC

\* ------------------------------------------------------------------ bounds
MaxItemID == 2      \* the producer sends ids from 0..MaxItemID
MaxStride == 2      \* REGISTER frames carry a stride in 0..MaxStride
NumPeers == 2       \* transport-level peers connected to the worker socket

ItemIDs == 0..MaxItemID
Strides == 0..MaxStride
Offsets == 0..MaxStride
PeerNames == <<"peer1", "peer2", "peer3", "peer4">>
Peers == {PeerNames[k] : k \in 1..NumPeers}   \* non-empty routing ids
NoItem == -1

\* -------------------------------------------------------- wire vocabulary
Policies == {"Async", "PrebufferOne", "Skip"}

\* The delimiter frame of a ROUTER envelope: message.at(1).size() == 0.
EmptyPart == ""

\* The text of a body frame, by what the handler's parser extracts from it.
\* REGISTER frames: every residue of the stride and one offset out of range.
\* fail is s.fail() after the extraction.
RegisterStrings ==
    {s \in [verb : {"REGISTER"}, stride : Strides, offset : Offsets,
            policy : Policies, id : {NoItem}, fail : {FALSE}] :
        s.offset <= s.stride}
CompleteStrings ==
    [verb : {"COMPLETE"}, stride : {0}, offset : {0},
     policy : {"-"}, id : ItemIDs, fail : {FALSE}]
OtherStrings ==
    [verb : {"OTHER"}, stride : {0}, offset : {0}, policy : {"-"},
     id : {NoItem}, fail : {FALSE}]

\* "REGISTER x" and "COMPLETE x": the first extraction fails, which stores 0
\* in its target and leaves the later targets as make_unique<Worker>() set
\* them (0; the queue policy is the enumerator of value 0, whichever it is).
MalformedStrings ==
    [verb : {"REGISTER"}, stride : {0}, offset : {0}, policy : Policies,
     id : {NoItem}, fail : {TRUE}]
    \cup [verb : {"COMPLETE"}, stride : {0}, offset : {0}, policy : {"-"},
          id : {0}, fail : {TRUE}]
MessageStrings ==
    RegisterStrings \cup CompleteStrings \cup OtherStrings
        \cup MalformedStrings

\* What a peer puts in the frame after the delimiter; the handler never
\* reads that frame, so one text per verb stands for all of them.
Command(verb, stride, offset, policy, id) ==
    [verb |-> verb, stride |-> stride, offset |-> offset, policy |-> policy,
     id |-> id, fail |-> FALSE]
PeerStrings ==
    {Command("REGISTER", 1, 0, "Async", NoItem),
     Command("COMPLETE", 0, 0, "-", 0),
     Command("OTHER", 0, 0, "-", NoItem)}

\* Worker-socket messages as the ROUTER socket delivers them: routing id,
\* empty delimiter, then the frames the peer sent.  Two parts is the
\* disconnect notification (ZMQ_NOTIFY_DISCONNECT).
WorkerMessages ==
    {<<p, EmptyPart>> : p \in Peers}
      \cup {<<p, EmptyPart, b>> : p \in Peers, b \in PeerStrings}
      \cup {<<p, EmptyPart, b, x>> : p \in Peers,
               b \in {Command("OTHER", 0, 0, "-", NoItem)},
               x \in MessageStrings}

\* The same from peers that do not send the delimiter (a DEALER socket
\* writing its frames as they are): the part after the routing id is the
\* peer's first frame.  A single frame gives a two-part message.  The
\* REGISTERs of these peers ask for every item, queued without limit.
RawParts == {"a", "b"}
RawStrings ==
    {s \in RegisterStrings :
        s.stride = 1 /\ s.offset = 0 /\ s.policy = "Async"}
        \cup CompleteStrings \cup OtherStrings
RawMessages ==
    {<<p, a>> : p \in Peers, a \in RawParts}
      \cup {<<p, a, b, x>> : p \in Peers, a \in RawParts,
               b \in {Command("OTHER", 0, 0, "-", NoItem)},
               x \in RawStrings}

\* multipart_t::peekstr(index): zero-based access to the parts.
peekstr(message, index) == message[index + 1]

\* Every value `identity` can take: it is read from part 1 of the envelope.
Identities == {peekstr(m, 1) : m \in WorkerMessages}
\* std::map<std::string, ...> iterates in key order: "" < "a" < "b".
IdentityOrder == <<EmptyPart, "a", "b">>

\* ------------------------------------------------------------------ state
VARIABLES
    workers,          \* workers_ : identity -> Worker record
    completed_items,  \* completed_items_ as the handler leaves it
    running,          \* FALSE once the process has been terminated
    polled,           \* sockets already served by the current poller.wait
    produced,         \* ids received from the producer so far
    delivered,        \* id -> number of completion frames sent to producer
    out_worker,       \* frames sent on the worker socket by the last event
    out_producer,     \* frames sent on the producer socket by the last event
    drained,          \* completed_items_ as send_pending_completions saw it
    last_event,       \* the event the last step handled
    inflight,         \* identity -> ids sent as WORK_ITEM, not yet COMPLETEd
    newest_busy,      \* identity -> newest matching id that arrived while
                      \* busy, since the worker's last COMPLETE
    since,            \* identity -> number of items received from the
                      \* producer before the record was created
    sent,             \* identity -> ids sent as WORK_ITEM to the record
    inserted,         \* the keys of workers_ in the order of their insertion
    peer_sockets      \* "REQ": the peers send the delimiter; "DEALER": not

vars == <<workers, completed_items, running, polled, produced, delivered,
          out_worker, out_producer, drained, last_event, inflight,
          newest_busy, since, sent, inserted, peer_sockets>>

Range(s) == {s[k] : k \in 1..Len(s)}

\* struct Worker, after make_unique<Worker>() and the REGISTER parse.
NewWorker(stride, offset, policy) ==
    [stride |-> stride, offset |-> offset, queue_policy |-> policy,
     waiting_items |-> <<>>, outstanding_items |-> <<>>]

\* Some queue of some worker of table W holds a reference to item id.
Held(W, id) ==
    \E i \in DOMAIN W :
        id \in Range(W[i].waiting_items) \cup Range(W[i].outstanding_items)

\* Item::~Item for a sequence of references released front to back: the ids
\* whose last reference this was, W being the table without those references.
RECURSIVE Destroyed(_, _)
Destroyed(refs, W) ==
    IF refs = <<>> THEN <<>>
    ELSE (IF Held(W, Head(refs)) \/ Head(refs) \in Range(Tail(refs))
          THEN <<>> ELSE <<Head(refs)>>) \o Destroyed(Tail(refs), W)

\* ~Worker: members go in reverse order of declaration, outstanding_items
\* before waiting_items.
WorkerRefs(w) == w.outstanding_items \o w.waiting_items

Remove(f, i) == [k \in DOMAIN f \ {i} |-> f[k]]
Put(f, i, v) == [k \in DOMAIN f \cup {i} |-> IF k = i THEN v ELSE f[k]]

wants_item_any(w, id, ub) == TRUE

\* Worker::wants_item.  With stride 0 the % is undefined: ub is what the
\* build made of it ("trap", or the boolean it evaluated to).
wants_item(w, id, ub) ==
    IF w.stride = 0 THEN ub = "true" ELSE id % w.stride = w.offset

DivisionOutcomes == {"trap", "true", "false"}

\* send_work_item / send_heartbeat: the frame handed to the worker socket
\* and whether message.send reported success.
Frame(to, verb, id, ok) == [to |-> to, verb |-> verb, id |-> id, ok |-> ok]

Transmitted_newest(ledger, k) ==
    [j \in 1..k |-> ledger[Len(ledger) + 1 - j]]

\* send_pending_completions: k sends succeed, then (k < Len) one throws;
\* the ledger is cleared in both cases.
Transmitted(ledger, k) == SubSeq(ledger, 1, k)

Deliver(d, ids) ==
    [n \in DOMAIN d |-> d[n] + Cardinality({k \in 1..Len(ids) : ids[k] = n})]

Start ==
    /\ workers = << >>
    /\ completed_items = <<>>
    /\ running = TRUE
    /\ polled = {}
    /\ produced = {}
    /\ delivered = [n \in ItemIDs |-> 0]
    /\ out_worker = <<>>
    /\ out_producer = <<>>
    /\ drained = <<>>
    /\ last_event = [type |-> "none", identity |-> "-", id |-> NoItem,
                     verb |-> "-"]
    /\ inflight = << >>
    /\ newest_busy = << >>
    /\ since = << >>
    /\ sent = << >>
    /\ inserted = <<>>

Init == Start /\ peer_sockets = "REQ"

\* The same broker with peers that send no delimiter.
RawInit == Start /\ peer_sockets = "DEALER"

Event(type, identity, id, verb) ==
    [type |-> type, identity |-> identity, id |-> id, verb |-> verb]

Drain_keep(ledger, k) ==
    /\ drained' = ledger
    /\ out_producer' = Transmitted(ledger, k)
    /\ delivered' = Deliver(delivered, Transmitted(ledger, k))
    /\ completed_items' = SubSeq(ledger, k + 1, Len(ledger))

\* The tail of every handler: send_pending_completions() on ledger, of
\* which the first k frames reach the producer socket.
Drain(ledger, k) ==
    /\ drained' = ledger
    /\ out_producer' = Transmitted(ledger, k)
    /\ delivered' = Deliver(delivered, Transmitted(ledger, k))
    /\ completed_items' = <<>>

\* The process dies inside a handler (uncaught exception, abort, trap):
\* nothing after the point of failure is executed and the broker's memory
\* (worker table, queues, ledger) is gone with the process.
Terminate ==
    /\ running' = FALSE
    /\ workers' = << >>
    /\ completed_items' = <<>>
    /\ polled' = {}
    /\ inflight' = << >>
    /\ newest_busy' = << >>
    /\ since' = << >>
    /\ sent' = << >>
    /\ inserted' = <<>>
    /\ out_producer' = <<>>
    /\ drained' = <<>>
    /\ UNCHANGED delivered

\* ------------------------------------------------ on_generator_pollin
\* One iteration of the loop over workers_, for the worker at identity i.
\* acc carries the table, the ledger, the frames sent so far and whether an
\* earlier iteration trapped.
PrebufferClear_none(w) == w

\* if (queue_policy == PrebufferOne) waiting_items.clear();
PrebufferClear(w) ==
    IF w.queue_policy = "PrebufferOne" THEN [w EXCEPT !.waiting_items = <<>>]
    ELSE w

Enqueue_always(w, id) == [w EXCEPT !.waiting_items = Append(@, id)]

\* The worker is busy: if (queue_policy != Skip) waiting_items.push_back
Enqueue(w, id) ==
    IF w.queue_policy # "Skip"
    THEN [w EXCEPT !.waiting_items = Append(@, id)]
    ELSE w

ReleaseLocal_always(W, id) == <<id>>

\* new_item = nullptr: the handler drops its own reference.
ReleaseLocal(W, id) == IF Held(W, id) THEN <<>> ELSE <<id>>

DistributeStep(acc, i, id, ub, ok) ==
    LET w == acc.w[i]
        w1 == PrebufferClear(w)
        cleared == IF w1 = w THEN <<>> ELSE w.waiting_items
        W1 == [acc.w EXCEPT ![i] = w1]
        c1 == acc.c \o Destroyed(cleared, W1)
    IN  IF acc.trap THEN acc
        ELSE IF w.stride = 0 /\ ub = "trap" THEN [acc EXCEPT !.trap = TRUE]
        ELSE IF ~wants_item(w, id, ub) THEN acc
        ELSE IF W1[i].outstanding_items = <<>>
        THEN [acc EXCEPT
                !.w = [W1 EXCEPT ![i].outstanding_items = Append(@, id)],
                !.c = c1,
                !.tx = Append(@, Frame(i, "WORK_ITEM", id, ok)),
                !.infl = [@ EXCEPT ![i] = @ \cup {id}],
                !.sent = [@ EXCEPT ![i] = Append(@, id)]]
        ELSE [acc EXCEPT
                !.w = [W1 EXCEPT ![i] = Enqueue(@, id)],
                !.c = c1,
                !.nb = [@ EXCEPT ![i] = id]]

RECURSIVE Distribute(_, _, _, _, _)
Distribute(acc, k, id, ub, ok) ==
    IF k > Len(IdentityOrder) THEN acc
    ELSE Distribute(IF IdentityOrder[k] \in DOMAIN acc.w
                    THEN DistributeStep(acc, IdentityOrder[k], id, ub, ok)
                    ELSE acc,
                    k + 1, id, ub, ok)

\* receive_producer_item: ids are the producer's sequence numbers 0, 1, 2...
receive_producer_item == {n \in ItemIDs : n = Cardinality(produced)}

OnGeneratorPollin ==
    /\ running
    /\ "generator" \notin polled
    /\ \E id \in receive_producer_item, ok \in BOOLEAN,
          ub \in (IF \E i \in DOMAIN workers : workers[i].stride = 0
                  THEN DivisionOutcomes ELSE {"false"}) :
         LET r == Distribute([w |-> workers, c |-> completed_items,
                              tx |-> <<>>, infl |-> inflight,
                              nb |-> newest_busy, sent |-> sent,
                              trap |-> FALSE],
                             1, id, ub, ok)
             \* new_item = nullptr
             ledger == r.c \o ReleaseLocal(r.w, id)
         IN  /\ produced' = produced \cup {id}
             /\ out_worker' = r.tx
             /\ last_event' = Event("item", "-", id, "-")
             /\ UNCHANGED peer_sockets
             /\ IF r.trap
                THEN Terminate
                ELSE /\ workers' = r.w
                     /\ inflight' = r.infl
                     /\ newest_busy' = r.nb
                     /\ sent' = r.sent
                     /\ polled' = polled \cup {"generator"}
                     /\ \E k \in 0..Len(ledger) : Drain(ledger, k)
                     /\ UNCHANGED <<running, since, inserted>>

\* --------------------------------------------------- on_worker_pollin
\* message.peekstr(3).  A three-part message has no part 3: the read is out
\* of bounds and yields whatever the memory holds.
message_string(message) ==
    IF Len(message) > 3 THEN {peekstr(message, 3)} ELSE MessageStrings

\* What the handler works with once a message of more than two parts has
\* been read: identity = message.peekstr(1) and message_string.
Parsed ==
    UNION {{[identity |-> peekstr(m, 1), message_string |-> s] :
               s \in message_string(m)} :
           m \in {x \in WorkerMessages : Len(x) > 2}}
Parses(verb) == {h \in Parsed : h.message_string.verb = verb}
RegisterParses == Parses("REGISTER")
CompleteParses == Parses("COMPLETE")
OtherParses == Parses("OTHER")

\* message.size() == 2
Notifications == {m \in WorkerMessages : Len(m) = 2}

\* The same for the peers without delimiter.
RawParsed ==
    UNION {{[identity |-> peekstr(m, 1), message_string |-> s] :
               s \in message_string(m)} :
           m \in {x \in RawMessages : Len(x) > 2}}
RawParses(verb) == {h \in RawParsed : h.message_string.verb = verb}
RawRegisterParses == RawParses("REGISTER")
RawCompleteParses == RawParses("COMPLETE")
RawOtherParses == RawParses("OTHER")
RawNotifications == {m \in RawMessages : Len(m) = 2}

\* What the worker socket can deliver, by the kind of peers.
Received == IF peer_sockets = "REQ" THEN WorkerMessages ELSE RawMessages
Registers == IF peer_sockets = "REQ" THEN RegisterParses ELSE RawRegisterParses
Completes == IF peer_sockets = "REQ" THEN CompleteParses ELSE RawCompleteParses
Others == IF peer_sockets = "REQ" THEN OtherParses ELSE RawOtherParses
Disconnects ==
    IF peer_sockets = "REQ" THEN {peekstr(m, 1) : m \in Notifications}
    ELSE {peekstr(m, 1) : m \in RawNotifications}

\* How the event is recorded: by its verb, or as malformed.
Label(s) == IF s.fail THEN "MALFORMED" ELSE s.verb

WorkerEvent(identity, verb, id) ==
    /\ polled' = polled \cup {"worker"}
    /\ last_event' = Event("worker", identity, id, verb)
    /\ UNCHANGED peer_sockets

\* The table's keys in insertion order, after key i has been erased.
Without(keys, i) == SelectSeq(keys, LAMBDA k : k # i)

\* if (workers_.erase(identity) == 0) std::cerr << "Error: disconnect from
\* unknown worker": what the handler's log tells of the event.
erase_log(W, identity) ==
    IF identity \in DOMAIN W THEN "DISCONNECT" ELSE "DISCONNECT_UNKNOWN"

OnWorkerDisconnect_at ==
    /\ running
    /\ "worker" \notin polled
    /\ \E identity \in Disconnects :
         LET W1 == Remove(workers, identity)
             ledger == completed_items \o
                       (IF identity \in DOMAIN workers
                        THEN Destroyed(WorkerRefs(workers[identity]), W1)
                        ELSE <<>>)
         IN  /\ out_worker' = <<>>
             /\ last_event' =
                   Event("worker", identity, NoItem,
                         erase_log(workers, identity))
             /\ UNCHANGED <<produced, peer_sockets>>
             /\ IF identity \notin DOMAIN workers
                THEN Terminate
                ELSE /\ workers' = W1
                     /\ inflight' = Remove(inflight, identity)
                     /\ newest_busy' = Remove(newest_busy, identity)
                     /\ since' = Remove(since, identity)
                     /\ sent' = Remove(sent, identity)
                     /\ inserted' = Without(inserted, identity)
                     /\ polled' = polled \cup {"worker"}
                     /\ \E k \in 0..Len(ledger) : Drain(ledger, k)
                     /\ UNCHANGED running

\* message.size() == 2: disconnect notification, workers_.erase(identity).
OnWorkerDisconnect ==
    /\ running
    /\ "worker" \notin polled
    /\ \E identity \in Disconnects :
         LET W1 == Remove(workers, identity)
             ledger == completed_items \o
                       (IF identity \in DOMAIN workers
                        THEN Destroyed(WorkerRefs(workers[identity]), W1)
                        ELSE <<>>)
         IN  /\ workers' = W1
             /\ inflight' = Remove(inflight, identity)
             /\ newest_busy' = Remove(newest_busy, identity)
             /\ since' = Remove(since, identity)
             /\ sent' = Remove(sent, identity)
             /\ inserted' = Without(inserted, identity)
             /\ out_worker' = <<>>
             /\ WorkerEvent(identity, erase_log(workers, identity), NoItem)
             /\ \E k \in 0..Len(ledger) : Drain(ledger, k)
             /\ UNCHANGED <<running, produced>>

\* "REGISTER ...": workers_[identity] = std::move(c).
OnWorkerRegister ==
    /\ running
    /\ "worker" \notin polled
    /\ \E h \in Registers :
         LET identity == h.identity
             s == h.message_string
             W1 == Put(workers, identity,
                       NewWorker(s.stride, s.offset, s.policy))
             ledger == completed_items \o
                       (IF identity \in DOMAIN workers
                        THEN Destroyed(WorkerRefs(workers[identity]), W1)
                        ELSE <<>>)
         IN  /\ workers' = W1
             /\ inflight' = Put(inflight, identity, {})
             /\ newest_busy' = Put(newest_busy, identity, NoItem)
             /\ since' = Put(since, identity, Cardinality(produced))
             /\ sent' = Put(sent, identity, <<>>)
             /\ inserted' = IF identity \in DOMAIN workers THEN inserted
                            ELSE Append(inserted, identity)
             /\ out_worker' = <<>>
             /\ WorkerEvent(identity, Label(s), NoItem)
             /\ \E k \in 0..Len(ledger) : Drain(ledger, k)
             /\ UNCHANGED <<running, produced>>

\* std::find_if over outstanding_items: position of the first entry with
\* this id, Len + 1 for end().
find_if(items, id) ==
    IF id \in Range(items)
    THEN CHOOSE k \in 1..Len(items) :
            items[k] = id /\ \A j \in 1..(k - 1) : items[j] # id
    ELSE Len(items) + 1

erase_none(items, pos) == items

erase(items, pos) ==
    [k \in 1..(Len(items) - 1) |-> IF k < pos THEN items[k] ELSE items[k + 1]]

front_newest(items) == items[Len(items)]

front(items) == items[1]

pop_front_none(items) == items

pop_front(items) == Tail(items)

Complete_norefill(h) ==
         LET identity == h.identity
             s == h.message_string
             c == workers[identity]
             it == find_if(c.outstanding_items, s.id)
             pos == IF it > Len(c.outstanding_items)
                    THEN Len(c.outstanding_items) ELSE it
             erased == c.outstanding_items[pos]
             c1 == [c EXCEPT !.outstanding_items = erase(@, pos)]
             W1 == [workers EXCEPT ![identity] = c1]
             ledger1 == completed_items \o Destroyed(<<erased>>, W1)
             next == FALSE
             item == front(c1.waiting_items)
             c2 == IF next
                   THEN [c1 EXCEPT
                           !.waiting_items = pop_front(@),
                           !.outstanding_items = Append(@, item)]
                   ELSE c1
         IN  /\ identity \in DOMAIN workers
             /\ c.outstanding_items # <<>>
             /\ workers' = [workers EXCEPT ![identity] = c2]
             /\ inflight' = [inflight EXCEPT
                               ![identity] = (@ \ {s.id}) \cup
                                   (IF next THEN {item} ELSE {})]
             /\ IF next
                THEN \E ok \in BOOLEAN :
                        out_worker' = <<Frame(identity, "WORK_ITEM", item, ok)>>
                ELSE out_worker' = <<>>
             /\ WorkerEvent(identity, Label(s), s.id)
             /\ \E k \in 0..Len(ledger1) : Drain(ledger1, k)
             /\ newest_busy' = [newest_busy EXCEPT ![identity] = NoItem]
             /\ sent' = IF next THEN [sent EXCEPT ![identity] = Append(@, item)]
                        ELSE sent
             /\ UNCHANGED <<running, produced, since, inserted>>

\* "COMPLETE <id>" from an identity that has a record, the id being in
\* outstanding_items or (erase_end) the assertion being compiled out and
\* erase(end()) taking the last element off a non-empty deque.
Complete(h) ==
         LET identity == h.identity
             s == h.message_string
             c == workers[identity]
             it == find_if(c.outstanding_items, s.id)
             pos == IF it > Len(c.outstanding_items)
                    THEN Len(c.outstanding_items) ELSE it
             erased == c.outstanding_items[pos]
             c1 == [c EXCEPT !.outstanding_items = erase(@, pos)]
             W1 == [workers EXCEPT ![identity] = c1]
             ledger1 == completed_items \o Destroyed(<<erased>>, W1)
             next == c1.waiting_items # <<>>
             item == front(c1.waiting_items)
             c2 == IF next
                   THEN [c1 EXCEPT
                           !.waiting_items = pop_front(@),
                           !.outstanding_items = Append(@, item)]
                   ELSE c1
         IN  /\ identity \in DOMAIN workers
             /\ c.outstanding_items # <<>>
             /\ workers' = [workers EXCEPT ![identity] = c2]
             /\ inflight' = [inflight EXCEPT
                               ![identity] = (@ \ {s.id}) \cup
                                   (IF next THEN {item} ELSE {})]
             /\ IF next
                THEN \E ok \in BOOLEAN :
                        out_worker' = <<Frame(identity, "WORK_ITEM", item, ok)>>
                ELSE out_worker' = <<>>
             /\ WorkerEvent(identity, Label(s), s.id)
             /\ \E k \in 0..Len(ledger1) : Drain(ledger1, k)
             /\ newest_busy' = [newest_busy EXCEPT ![identity] = NoItem]
             /\ sent' = IF next THEN [sent EXCEPT ![identity] = Append(@, item)]
                        ELSE sent
             /\ UNCHANGED <<running, produced, since, inserted>>

OnWorkerComplete ==
    /\ running
    /\ "worker" \notin polled
    /\ \E h \in Completes : Complete(h)

\* The COMPLETEs of a worker that completes what it was sent: the id is in
\* the record's outstanding_items.
CompleteOutstanding ==
    /\ running
    /\ "worker" \notin polled
    /\ \E h \in Completes :
         /\ h.identity \in DOMAIN workers
         /\ h.message_string.id
               \in Range(workers[h.identity].outstanding_items)
         /\ Complete(h)

\* The events in which the handler does not return: the out-of-bounds read
\* of part 3 faults; assert(message.at(1).size() == 0) aborts;
\* assert(!s.fail()) aborts; or, for a COMPLETE,
\* workers_.at(identity) throws for an identity without a record and
\* assert(it != end) aborts (or erase(end()) corrupts an empty deque) for an
\* id that is not outstanding.
Faults ==
    {Event("worker", "-", NoItem, "FATAL") :
        m \in {x \in Received : Len(x) = 3 \/ peekstr(x, 1) # EmptyPart}}
    \cup
    {Event("worker", h.identity, h.message_string.id, "MALFORMED") :
        h \in {g \in Registers \cup Completes : g.message_string.fail}}
    \cup
    {Event("worker", h.identity, h.message_string.id,
           Label(h.message_string)) :
        h \in {g \in Completes :
                 \/ g.identity \notin DOMAIN workers
                 \/ /\ g.identity \in DOMAIN workers
                    /\ g.message_string.id
                         \notin Range(workers[g.identity].outstanding_items)}}

OnWorkerFatal ==
    /\ running
    /\ "worker" \notin polled
    /\ \E e \in Faults : last_event' = e
    /\ Terminate
    /\ out_worker' = <<>>
    /\ UNCHANGED <<produced, peer_sockets>>

\* Any other text: neither branch is taken, only the drain runs.
OnWorkerOther ==
    /\ running
    /\ "worker" \notin polled
    /\ \E h \in Others :
         /\ WorkerEvent("-", "OTHER", NoItem)
         /\ out_worker' = <<>>
         /\ \E k \in 0..Len(completed_items) : Drain(completed_items, k)
         /\ UNCHANGED <<workers, running, produced, inflight, newest_busy,
                        since, sent, inserted>>

\* ------------------------------------------------------ send_heartbeat
\* poller.wait has returned (after its handlers, or on the timeout):
\* a HEARTBEAT goes to every worker without outstanding items.
Heartbeats_none(W, k, ok) == <<>>

RECURSIVE Heartbeats(_, _, _)
Heartbeats(W, k, ok) ==
    IF k > Len(IdentityOrder) THEN <<>>
    ELSE (IF IdentityOrder[k] \in DOMAIN W
             /\ W[IdentityOrder[k]].outstanding_items = <<>>
          THEN <<Frame(IdentityOrder[k], "HEARTBEAT", NoItem, ok)>>
          ELSE <<>>) \o Heartbeats(W, k + 1, ok)

SendHeartbeat_all ==
    /\ running
    /\ \E ok \in (IF workers = << >> THEN {TRUE} ELSE BOOLEAN) :
          out_worker' =
              Heartbeats([i \in DOMAIN workers |-> NewWorker(1, 0, "Skip")],
                         1, ok)
    /\ polled' = {}
    /\ out_producer' = <<>>
    /\ drained' = <<>>
    /\ last_event' = Event("tick", "-", NoItem, "-")
    /\ UNCHANGED <<workers, completed_items, running, produced, delivered,
                   inflight, newest_busy, since, sent, inserted,
                   peer_sockets>>

SendHeartbeat ==
    /\ running
    /\ \E ok \in (IF Heartbeats(workers, 1, TRUE) = <<>>
                  THEN {TRUE} ELSE BOOLEAN) :
          out_worker' = Heartbeats(workers, 1, ok)
    /\ polled' = {}
    /\ out_producer' = <<>>
    /\ drained' = <<>>
    /\ last_event' = Event("tick", "-", NoItem, "-")
    /\ UNCHANGED <<workers, completed_items, running, produced, delivered,
                   inflight, newest_busy, since, sent, inserted,
                   peer_sockets>>

\* ------------------------------------------------------------- stop()
\* void stop() {}: the call returns without touching anything; the loop in
\* operator() is while (true) and goes on.  The call comes from another
\* thread; it is taken while the loop waits in poller.wait.
Stop ==
    /\ running
    /\ polled = {}
    /\ last_event' = Event("stop", "-", NoItem, "-")
    /\ out_worker' = <<>>
    /\ out_producer' = <<>>
    /\ drained' = <<>>
    /\ UNCHANGED <<workers, completed_items, running, polled, produced,
                   delivered, inflight, newest_busy, since, sent, inserted,
                   peer_sockets>>

Next ==
    \/ OnGeneratorPollin
    \/ OnWorkerDisconnect
    \/ OnWorkerRegister
    \/ OnWorkerComplete
    \/ OnWorkerFatal
    \/ OnWorkerOther
    \/ SendHeartbeat
    \/ Stop

Spec == Init /\ [][Next]_vars

\* poller.wait returns after at most 1000 ms and send_heartbeat follows it.
FairSpec == Spec /\ WF_vars(SendHeartbeat)

\* The heartbeat sweep keeps coming and the worker keeps completing the
\* items in its outstanding_items.
CompletingSpec ==
    Spec /\ WF_vars(SendHeartbeat) /\ SF_vars(CompleteOutstanding)

\* The broker serving peers that send no delimiter.
RawSpec == RawInit /\ [][Next]_vars

TypeOK ==
    /\ DOMAIN workers \subseteq Identities \cup RawParts
    /\ peer_sockets \in {"REQ", "DEALER"}
    /\ Range(inserted) = DOMAIN workers
    /\ running \in BOOLEAN
    /\ produced \subseteq ItemIDs
    /\ completed_items = <<>>

\* =================================================================
\* Properties
\* =================================================================
InQueues(n) ==
    \E i \in DOMAIN workers :
        n \in Range(workers[i].waiting_items)
              \cup Range(workers[i].outstanding_items)

Quiescent ==
    \A i \in DOMAIN workers :
        workers[i].waiting_items = <<>> /\ workers[i].outstanding_items = <<>>

WorkItemsTo(i, frames) ==
    {k \in 1..Len(frames) : frames[k].verb = "WORK_ITEM" /\ frames[k].to = i}

\* C1: no id is delivered to the producer more often than it was received,
\* and once no worker holds an item any more (the broker still running),
\* every id received has been delivered to the producer exactly once.
C1_CompletionConservation ==
    /\ \A n \in ItemIDs : delivered[n] <= (IF n \in produced THEN 1 ELSE 0)
    /\ (running /\ Quiescent) => \A n \in produced : delivered[n] = 1

C4_PrebufferOneBound ==
    /\ [](\A i \in DOMAIN workers :
             workers[i].queue_policy = "PrebufferOne" =>
                /\ Len(workers[i].waiting_items) <= 1
                /\ workers[i].waiting_items # <<>> =>
                      workers[i].waiting_items[1] = newest_busy[i])
    /\ [][\A k \in 1..Len(out_worker') :
             (/\ out_worker'[k].verb = "WORK_ITEM"
              /\ last_event'.verb = "COMPLETE"
              /\ workers'[out_worker'[k].to].queue_policy = "PrebufferOne")
             => /\ out_worker'[k].id = newest_busy[out_worker'[k].to]
                /\ workers'[out_worker'[k].to].outstanding_items
                      = <<out_worker'[k].id>>]_vars

\* The item that just arrived displaced an older prebuffered item of a busy
\* PrebufferOne worker.
C4_Witness ==
    /\ last_event.type = "item"
    /\ drained # <<>>
    /\ drained[1] # last_event.id
    /\ \E i \in DOMAIN workers :
          /\ workers[i].queue_policy = "PrebufferOne"
          /\ workers[i].outstanding_items # <<>>
          /\ workers[i].waiting_items = <<last_event.id>>

\* C5: a Skip worker never has a waiting item; a WORK_ITEM goes to it only
\* for the item that arrives in this event and only if the worker had no
\* outstanding item when it arrived; its COMPLETE dispatches nothing.
C5_SkipBound ==
    /\ [](\A i \in DOMAIN workers :
             workers[i].queue_policy = "Skip" =>
                workers[i].waiting_items = <<>>)
    /\ [][\A i \in DOMAIN workers' :
             (workers'[i].queue_policy = "Skip"
                /\ WorkItemsTo(i, out_worker') # {})
             => /\ last_event'.type = "item"
                /\ i \in DOMAIN workers
                /\ workers[i].outstanding_items = <<>>
                /\ \A k \in WorkItemsTo(i, out_worker') :
                      out_worker'[k].id = last_event'.id]_vars

\* A matching item arrived while a Skip worker was busy and was dropped on
\* the spot.
C5_Witness ==
    /\ last_event.type = "item"
    /\ drained = <<last_event.id>>
    /\ out_worker = <<>>
    /\ \E i \in DOMAIN workers :
          /\ workers[i].queue_policy = "Skip"
          /\ workers[i].stride = 1
          /\ workers[i].outstanding_items # <<>>

\* C6: for every worker (registered with stride >= 1) the WORK_ITEMs sent
\* to it and not yet COMPLETEd are as many as its outstanding_items, and a
\* PrebufferOne or Skip worker never has more than one outstanding.
C6_OneInFlight ==
    \A i \in DOMAIN workers :
        workers[i].stride >= 1 =>
           /\ Cardinality(inflight[i]) = Len(workers[i].outstanding_items)
           /\ workers[i].queue_policy \in {"PrebufferOne", "Skip"} =>
                 Len(workers[i].outstanding_items) <= 1

\* C7: a disconnect notification for a registered identity removes the
\* record, delivers to the producer in that event every item of its queues
\* that no other worker holds and none that another worker holds, and sends
\* nothing on the worker socket; frames only ever go to registered workers.
C7_DisconnectReleases ==
    /\ [](\A k \in 1..Len(out_worker) : out_worker[k].to \in DOMAIN workers)
    /\ [][(last_event'.verb = "DISCONNECT"
             /\ last_event'.identity \in DOMAIN workers)
          => /\ last_event'.identity \notin DOMAIN workers'
             /\ out_worker' = <<>>
             /\ \A n \in Range(WorkerRefs(workers[last_event'.identity])) :
                   n \in Range(out_producer') <=> ~InQueues(n)']_vars

\* C8: an item that no worker accepted is delivered to the producer by the
\* event that received it, and no WORK_ITEM is sent for it.
C8_NoMatchingWorker ==
    (last_event.type = "item" /\ running /\ ~InQueues(last_event.id))
    => /\ last_event.id \in Range(out_producer)
       /\ \A k \in 1..Len(out_worker) : out_worker[k].id # last_event.id

C10_RegisterReplaces ==
    [][(last_event'.verb = "REGISTER"
          /\ last_event'.identity \in DOMAIN workers)
       => /\ last_event'.identity \in DOMAIN workers'
          /\ workers'[last_event'.identity].waiting_items = <<>>
          /\ workers'[last_event'.identity].outstanding_items = <<>>
          /\ \A n \in Range(WorkerRefs(workers[last_event'.identity])) :
                ~InQueues(n)' => n \in Range(out_producer')]_vars

\* The ids received from the producer in arrival order (they are sequence
\* numbers), and those of them that arrived after record i was created and
\* that its (stride, offset) matches.
Arrived == [k \in 1..Cardinality(produced) |-> k - 1]
Matches(i, n) ==
    n >= since[i] /\ n % workers[i].stride = workers[i].offset
Matching(i) == SelectSeq(Arrived, LAMBDA n : Matches(i, n))
IsPrefix(s, q) == Len(s) <= Len(q) /\ \A k \in 1..Len(s) : s[k] = q[k]

C12_UnknownCompleteIgnored ==
    [][(/\ last_event'.verb = "COMPLETE"
        /\ last_event'.identity \in DOMAIN workers
        /\ last_event'.id
              \notin Range(workers[last_event'.identity].outstanding_items))
       => /\ workers' = workers
          /\ out_worker' = <<>>
          /\ drained' = <<>>
          /\ running']_vars

\* C13: the event loop never stops, and a COMPLETE from an identity that
\* has no record leaves the worker table as it was and the broker running.
C13_NoFatalErrors ==
    /\ []running
    /\ [][(/\ last_event'.verb = "COMPLETE"
           /\ last_event'.identity \notin DOMAIN workers)
          => /\ running'
             /\ workers' = workers]_vars

\* C14: a worker frame that is neither a REGISTER nor a COMPLETE, or a
\* REGISTER or COMPLETE whose fields do not parse, changes no record and no
\* queue, sends and reports nothing, and leaves the broker running.
C14_MalformedNoEffect ==
    [][last_event'.verb \in {"OTHER", "MALFORMED"}
       => /\ workers' = workers
          /\ out_worker' = <<>>
          /\ drained' = <<>>
          /\ running']_vars

\* C15: a call of stop() ends the event loop, empties the worker table and
\* delivers to the producer every item that a worker held.
C15_StopDrains ==
    [][last_event'.type = "stop"
       => /\ ~running'
          /\ workers' = << >>
          /\ \A n \in ItemIDs : InQueues(n) => delivered'[n] = 1]_vars

\* C16: after a drain the ledger holds exactly the ids the drain found
\* and did not send to the producer, so an id whose send failed is still
\* there for the next drain.
C16_LedgerKeptOnFailure ==
    running => drained = out_producer \o completed_items

\* C17: every producer-item, worker-message and disconnect event that the
\* broker survives ends with a drain: the ledger is empty afterwards, the
\* frames sent to the producer are the ids the drain found, in order, up to
\* the first failed send, and every item that lost its last holder in the
\* event was in the ledger the drain found.
C17_DrainAfterEveryEvent ==
    /\ [](/\ completed_items = <<>>
          /\ IsPrefix(out_producer, drained))
    /\ [][(last_event'.type \in {"item", "worker"} /\ running')
          => \A n \in ItemIDs :
                (/\ InQueues(n) \/ (last_event'.type = "item"
                                      /\ last_event'.id = n)
                 /\ ~InQueues(n)')
                => n \in Range(drained')]_vars

\* A disconnect released two items and the send of the second one failed:
\* one frame went to the producer and the ledger is empty all the same.
C17_Witness ==
    /\ running
    /\ last_event.verb = "DISCONNECT"
    /\ Len(drained) = 2
    /\ Len(out_producer) = 1
    /\ completed_items = <<>>

\* C19: when a matching item arrives for a busy PrebufferOne worker and
\* takes the place of the prebuffered one, the displaced id (no other worker
\* holding it) is delivered to the producer by that event; the ids a worker
\* still holds are not delivered.
C19_DisplacedReportedAtOnce ==
    [][(last_event'.type = "item" /\ running')
       => \A i \in DOMAIN workers :
             (/\ workers[i].queue_policy = "PrebufferOne"
              /\ workers[i].stride >= 1
              /\ workers[i].waiting_items # <<>>
              /\ workers'[i].waiting_items = <<last_event'.id>>)
             => /\ \A m \in Range(workers[i].waiting_items) :
                      ~InQueues(m)' => m \in Range(out_producer')
                /\ \A m \in ItemIDs :
                      InQueues(m)' => m \notin Range(out_producer')]_vars

\* The transport identities: the first part of the envelopes.
TransportIdentities == {peekstr(m, 0) : m \in WorkerMessages}

\* C20: the keys of the worker table are transport identities (first parts
\* of envelopes), and a worker event that the broker survives leaves the
\* record of every identity other than the sender's as it was.
C20_KeyedByTransportIdentity ==
    /\ [](DOMAIN workers \subseteq TransportIdentities)
    /\ [][(last_event'.type = "worker" /\ running')
          => \A j \in DOMAIN workers :
                j # last_event'.identity
                => j \in DOMAIN workers' /\ workers'[j] = workers[j]]_vars

\* The place of key i in a sequence of keys.
Position(keys, i) == CHOOSE n \in 1..Len(keys) : keys[n] = i

\* C18: when an arriving item goes to several workers at once, the
\* WORK_ITEM frames are sent in the order in which the workers' records were
\* inserted in the table, whatever the values of their identities.
C18_FanoutInInsertionOrder ==
    [][(last_event'.type = "item" /\ running')
       => \A j, k \in 1..Len(out_worker') :
             j < k => Position(inserted, out_worker'[j].to)
                        < Position(inserted, out_worker'[k].to)]_vars

\* C21: a HEARTBEAT is only ever sent to a worker whose outstanding_items
\* is empty at the moment of the sweep; a sweep sends nothing to a worker
\* that has an outstanding item, and no other event sends a HEARTBEAT.
C21_HeartbeatOnlyIdle ==
    /\ [](\A k \in 1..Len(out_worker) :
             out_worker[k].verb = "HEARTBEAT" =>
                /\ last_event.type = "tick"
                /\ out_worker[k].to \in DOMAIN workers
                /\ workers[out_worker[k].to].outstanding_items = <<>>)
    /\ [][last_event'.type = "tick" =>
            \A i \in DOMAIN workers :
               workers[i].outstanding_items # <<>> =>
                  \A k \in 1..Len(out_worker') : out_worker'[k].to # i]_vars

\* A sweep has passed over a worker that has an outstanding item and a
\* waiting one: nothing was sent to it.
C21_Witness ==
    /\ last_event.type = "tick"
    /\ out_worker = <<>>
    /\ \E i \in DOMAIN workers :
          /\ workers[i].outstanding_items # <<>>
          /\ workers[i].waiting_items # <<>>

\* C22: a HEARTBEAT is sent to a worker only once heartbeat_interval has
\* passed since its REGISTER.  The handlers run inside poller.wait and the
\* sweep follows its return at once, so the sweep that comes right after the
\* REGISTER event is not later than that: it sends the worker no HEARTBEAT.
C22_HeartbeatGating ==
    [][(last_event.verb = "REGISTER" /\ last_event'.type = "tick")
       => \A k \in 1..Len(out_worker') :
             out_worker'[k].verb = "HEARTBEAT"
                => out_worker'[k].to # last_event.identity]_vars

\* C23: every record of the worker table has stride >= 1 and
\* 0 <= offset < stride.
C23_StrideOffsetRange ==
    \A i \in DOMAIN workers :
        /\ workers[i].stride >= 1
        /\ 0 <= workers[i].offset
        /\ workers[i].offset < workers[i].stride

Orphaned(w, W) == SelectSeq(WorkerRefs(w), LAMBDA n : ~Held(W, n))

\* C25: the completion frames an event sends to the producer are the ids of
\* the items destroyed in it, in the order of their destruction, up to the
\* first failed send: the order in which the drain found them in the ledger
\* and, when a record is erased or replaced, the order in which the record
\* let go of them (outstanding_items, then waiting_items, front to back).
C25_LedgerOrder ==
    [][(last_event'.type \in {"item", "worker"} /\ running')
       => /\ IsPrefix(out_producer', drained')
          /\ (/\ last_event'.verb \in {"DISCONNECT", "REGISTER"}
              /\ last_event'.identity \in DOMAIN workers)
             => IsPrefix(out_producer',
                         Orphaned(workers[last_event'.identity],
                                  workers'))]_vars

\* A disconnect has delivered three ids to the producer, all that the
\* record held.
C25_Witness ==
    /\ running
    /\ last_event.verb = "DISCONNECT"
    /\ Len(out_producer) = 3
    /\ out_producer = drained
    /\ \A n \in Range(out_producer) : delivered[n] = 1

\* C26: in every state no item occurs twice in a worker's outstanding_items
\* followed by its waiting_items: not twice in one queue and not in both.
C26_OncePerWorker ==
    \A i \in DOMAIN workers :
        LET refs == WorkerRefs(workers[i])
        IN  \A j, k \in 1..Len(refs) : j # k => refs[j] # refs[k]

\* A COMPLETE has moved an item from waiting_items to outstanding_items
\* while another item goes on waiting.
C26_Witness ==
    /\ last_event.verb = "COMPLETE"
    /\ \E i \in DOMAIN workers :
          /\ Len(workers[i].outstanding_items) = 1
          /\ Len(workers[i].waiting_items) = 1
          /\ \E k \in 1..Len(out_worker) :
                /\ out_worker[k].verb = "WORK_ITEM"
                /\ out_worker[k].id = workers[i].outstanding_items[1]

\* The externally visible state of identity i in table W.  Disconnected is
\* left for Unknown by the same event, the record being erased.
WorkerState(W, i) ==
    IF i \notin DOMAIN W THEN "Unknown"
    ELSE IF W[i].outstanding_items = <<>> THEN "Registered-Idle"
    ELSE "Registered-Busy"

\* C27: every step takes the state of every identity along a listed
\* transition or leaves it: Unknown to Registered-Idle on its REGISTER, Idle
\* to Busy and Busy to Idle, a registered state to Unknown on its disconnect
\* notification; and after its REGISTER an identity is Idle.
C27_WorkerStateMachine ==
    [][\A i \in Identities :
          LET s == WorkerState(workers, i)
              t == WorkerState(workers', i)
              own == last_event'.type = "worker" /\ last_event'.identity = i
          IN  /\ \/ s = t
                 \/ s = "Unknown" /\ t = "Registered-Idle"
                      /\ own /\ last_event'.verb = "REGISTER"
                 \/ s = "Registered-Idle" /\ t = "Registered-Busy"
                 \/ s = "Registered-Busy" /\ t = "Registered-Idle"
                 \/ s # "Unknown" /\ t = "Unknown"
                      /\ own /\ last_event'.verb = "DISCONNECT"
              /\ (own /\ last_event'.verb = "REGISTER")
                    => t = "Registered-Idle"]_vars

C29_NoStrandedWaiting ==
    \A i \in DOMAIN workers :
        workers[i].waiting_items # <<>>
           => workers[i].outstanding_items # <<>>

\* The item that just arrived waits at a busy PrebufferOne worker; nothing
\* was sent for it.
C29_Witness ==
    /\ last_event.type = "item"
    /\ out_worker = <<>>
    /\ \E i \in DOMAIN workers :
          /\ workers[i].queue_policy = "PrebufferOne"
          /\ workers[i].waiting_items = <<last_event.id>>
          /\ workers[i].outstanding_items # <<>>

\* Event e was a message of identity i with this verb and id, or one with
\* fields that did not parse and were read as this id.
Own(e, i, verb, id) ==
    /\ e.type = "worker"
    /\ e.identity = i
    /\ e.verb \in {verb, "MALFORMED"}
    /\ e.id = id

\* C30: a WORK_ITEM whose send failed is in the worker's outstanding_items
\* and is not reported; and an item in the outstanding_items of a worker
\* (of stride >= 1), sent or not, stays there through every step the broker survives, the worker being
\* sent nothing and the item not being reported, unless the step is the
\* worker's COMPLETE for that item, its REGISTER or its disconnect.
C30_FailedSendStaysOutstanding ==
    /\ [](\A k \in 1..Len(out_worker) :
             (running /\ out_worker[k].verb = "WORK_ITEM" /\ ~out_worker[k].ok)
             => /\ out_worker[k].to \in DOMAIN workers
                /\ out_worker[k].id
                     \in Range(workers[out_worker[k].to].outstanding_items)
                /\ out_worker[k].id \notin Range(drained))
    /\ [][running' =>
            \A i \in DOMAIN workers :
               \A n \in Range(workers[i].outstanding_items) :
                  \/ workers[i].stride = 0
                  \/ Own(last_event', i, "REGISTER", NoItem)
                  \/ Own(last_event', i, "DISCONNECT", NoItem)
                  \/ Own(last_event', i, "COMPLETE", n)
                  \/ /\ i \in DOMAIN workers'
                     /\ n \in Range(workers'[i].outstanding_items)
                     /\ n \notin Range(drained')
                     /\ \A k \in 1..Len(out_worker') :
                           out_worker'[k].to # i]_vars

====
